---- MODULE Spec2Model ----
(***************************************************************************)
(* Model of rustranslate (src/src/main.rs): Translator::translate, its    *)
(* retry loop, the TranslationError type, its Display implementation and  *)
(* main.                                                                   *)
(*                                                                         *)
(* A call of translate is a future.  The futures of all calls are polled  *)
(* by one executor thread; a future gives the thread back only at an      *)
(* .await (send().await, text().await) or when it returns.  The delay     *)
(* between two attempts is std::thread::sleep, which is not an .await.    *)
(***************************************************************************)
EXTENDS Integers, Sequences, FiniteSets, TLC

(***************************************************************************)
(* Bounds of the model.                                                    *)
(***************************************************************************)
NumCalls == 2          \* number of translate calls on the one Translator
ReqCap == 6            \* cap on the requests one call may issue

(***************************************************************************)
(* Program constants.                                                      *)
(***************************************************************************)
RetryLimit == 3        \* `if retries < 3`
MaxDelayDraw == 5      \* `rng.gen_range(0..=5)`
DelayUnit == 1000      \* `* 1000`

Calls == 1..NumCalls

api_url == "https://translate.googleapis.com/translate_a/single"

(***************************************************************************)
(* JSON text and serde_json::Value.  A body is a sequence of tokens; a    *)
(* Value is a record with its kind k, string/number payload s and, for an *)
(* array, its elements a.                                                  *)
(***************************************************************************)
Tok(t) == [t |-> t, v |-> ""]
StrTok(x) == [t |-> "str", v |-> x]
NumTok(x) == [t |-> "num", v |-> x]

LB == Tok("[")
RB == Tok("]")
CM == Tok(",")

JNull == [k |-> "null", s |-> "", a |-> <<>>]
JStr(x) == [k |-> "str", s |-> x, a |-> <<>>]
JNum(x) == [k |-> "num", s |-> x, a |-> <<>>]
JObj == [k |-> "obj", s |-> "", a |-> <<>>]
JArr(xs) == [k |-> "arr", s |-> "", a |-> xs]

ParseFail == [ok |-> FALSE, val |-> JNull, rest |-> <<>>]
Parsed(v, r) == [ok |-> TRUE, val |-> v, rest |-> r]

RECURSIVE ParseValue(_)
RECURSIVE ParseElements(_, _)

\* One JSON value at the head of toks; rest is what follows it.
ParseValue(toks) ==
    IF toks = <<>> THEN ParseFail
    ELSE LET h == Head(toks)
             r == Tail(toks)
         IN  CASE h.t = "null" -> Parsed(JNull, r)
               [] h.t = "num" -> Parsed(JNum(h.v), r)
               [] h.t = "str" -> Parsed(JStr(h.v), r)
               [] h.t = "{" -> IF r # <<>> /\ Head(r).t = "}"
                               THEN Parsed(JObj, Tail(r))
                               ELSE ParseFail
               [] h.t = "[" -> IF r # <<>> /\ Head(r).t = "]"
                               THEN Parsed(JArr(<<>>), Tail(r))
                               ELSE ParseElements(r, <<>>)
               [] OTHER -> ParseFail

\* The elements of an array after "[" or ",", up to the closing "]".
ParseElements(toks, acc) ==
    LET e == ParseValue(toks)
    IN  IF ~e.ok \/ e.rest = <<>> THEN ParseFail
        ELSE IF Head(e.rest).t = ","
             THEN ParseElements(Tail(e.rest), Append(acc, e.val))
        ELSE IF Head(e.rest).t = "]"
             THEN Parsed(JArr(Append(acc, e.val)), Tail(e.rest))
        ELSE ParseFail

\* Variant of from_str that decodes into Vec<Vec<Vec<Value>>> and fails on
\* any other shape.
from_str_Typed(text) ==
    LET p == ParseValue(text)
    IN  IF /\ p.ok /\ p.rest = <<>>
           /\ p.val.k = "arr"
           /\ \A i \in 1..Len(p.val.a) :
                 /\ p.val.a[i].k = "arr"
                 /\ \A j \in 1..Len(p.val.a[i].a) : p.val.a[i].a[j].k = "arr"
        THEN Parsed(p.val, <<>>)
        ELSE ParseFail

\* serde_json::from_str::<Value>(&text): the whole text must be one value.
from_str(text) ==
    LET p == ParseValue(text)
    IN  IF p.ok /\ p.rest = <<>> THEN Parsed(p.val, <<>>) ELSE ParseFail

\* json[i] for a usize i: the element of an array, Null for anything else.
Index(json, i) ==
    IF json.k = "arr" /\ i + 1 <= Len(json.a) THEN json.a[i + 1] ELSE JNull

None == [some |-> FALSE, v |-> ""]
Some(x) == [some |-> TRUE, v |-> x]

\* Variant of as_str that takes the empty string for no string.
as_str_NonEmpty(json) == IF json.k = "str" /\ json.s # "" THEN Some(json.s) ELSE None

\* Value::as_str
as_str(json) == IF json.k = "str" THEN Some(json.s) ELSE None

\* Variant of Extract that reads json[0][0][1].
Extract_WrongIndex(json) == as_str(Index(Index(Index(json, 0), 0), 1))

\* json[0][0][0].as_str()
Extract(json) == as_str(Index(Index(Index(json, 0), 0), 0))

(***************************************************************************)
(* The answers of the backend.                                             *)
(***************************************************************************)
BodyBonjour ==
    <<LB, LB, LB, StrTok("Bonjour"), CM, StrTok("hello"), RB, RB, CM, Tok("null"), RB>>
BodyEmptyString == <<LB, LB, LB, StrTok(""), CM, StrTok("hello"), RB, RB, RB>>
BodyNull == <<Tok("null")>>
BodyObject == <<Tok("{"), Tok("}")>>
BodyTopString == <<StrTok("Bonjour")>>
BodyEmptyArray == <<LB, RB>>
BodyInnerEmpty == <<LB, LB, RB, RB>>
BodyInnerString == <<LB, LB, StrTok("Bonjour"), RB, RB>>
BodyNumber == <<LB, LB, LB, NumTok("7"), CM, StrTok("Bonjour"), RB, RB, RB>>
BodyTopNumber == <<NumTok("7")>>
BodyFirstObject == <<LB, Tok("{"), Tok("}"), RB>>
BodyInnerNull == <<LB, LB, Tok("null"), RB, RB>>
BodyTruncated == <<LB, LB, LB, StrTok("Bonjour")>>
BodyHtml == <<Tok("<html>")>>
BodyBlank == <<>>

StringBodies == {BodyBonjour, BodyEmptyString}
NoStringBodies ==
    {BodyNull, BodyObject, BodyTopString, BodyEmptyArray, BodyInnerEmpty,
     BodyInnerString, BodyNumber, BodyTopNumber, BodyFirstObject, BodyInnerNull}
BadBodies == {BodyTruncated, BodyHtml, BodyBlank}
Bodies == StringBodies \cup NoStringBodies \cup BadBodies

\* What response.text().await gives: the body, or a failure to read it.
TextErr == [ok |-> FALSE, text |-> <<>>]
TextOk(b) == [ok |-> TRUE, text |-> b]
TextOutcomes(bodies) == {TextErr} \cup {TextOk(b) : b \in bodies}

\* The bodies of an endpoint that answers a translation, an empty array or
\* an error page.
FewBodies == {BodyBonjour, BodyEmptyArray, BodyHtml}

Words == {"hello", ""}
Langs == {"fr", "de"}

(***************************************************************************)
(* Result<String, TranslationError>                                        *)
(***************************************************************************)
Pending == [tag |-> "Pending", err |-> "", s |-> ""]
Ok(x) == [tag |-> "Ok", err |-> "", s |-> x]
RequestFailed == [tag |-> "Err", err |-> "RequestFailed", s |-> ""]
ResponseParsingFailed == [tag |-> "Err", err |-> "ResponseParsingFailed", s |-> ""]
NoTranslationFound(x) == [tag |-> "Err", err |-> "NoTranslationFound", s |-> x]

\* impl fmt::Display for TranslationError
Display(e) ==
    CASE e.err = "RequestFailed" -> "Failed to send translation request"
      [] e.err = "ResponseParsingFailed" -> "Failed to parse response body as JSON"
      [] e.err = "NoTranslationFound" -> "No translation found for: " \o e.s
      [] OTHER -> ""

\* format!("No translation found for: {}", word)
error_message(w) == "No translation found for: " \o w

(***************************************************************************)
(* State.                                                                  *)
(***************************************************************************)
VARIABLES
    translator,   \* the Translator: source_lang, target_lang
    backend,      \* the bodies the endpoint may answer with
    pc,           \* where each call is: idle, start, await_send, await_text, sleeping, done
    word,         \* the argument of each call
    retries,      \* the local `retries` of each call
    delay,        \* the local `delay` of a call inside thread::sleep
    resp,         \* the text outcome of the attempt a call returned on
    result,       \* what each call returned
    log,          \* per call: the requests sent and the sleeps finished, in order
    hist,         \* per call: how each attempt so far ended
    waited,       \* per call: the milliseconds slept so far, where they are measured
    mainpc,       \* where main is: none (no main), awaiting, exited, panicked
    stdout        \* what the process has printed

vars == <<translator, backend, pc, word, retries, delay, resp, result, log, hist,
          waited, mainpc, stdout>>

NoText == [ok |-> FALSE, text |-> <<Tok("none")>>]

\* Variant of Request in which a retry sends the error message as the word.
Request_RetryAltersWord(c) ==
    [e |-> "req", method |-> "GET", url |-> api_url, client |-> "gtx", dt |-> "t",
     sl |-> translator.source_lang, tl |-> translator.target_lang,
     q |-> IF pc[c] = "sleeping" THEN error_message(word[c]) ELSE word[c]]

\* The GET request of lines 48-58.
Request(c) ==
    [e |-> "req", method |-> "GET", url |-> api_url, client |-> "gtx", dt |-> "t",
     sl |-> translator.source_lang, tl |-> translator.target_lang, q |-> word[c]]
SleepEvent ==
    [e |-> "sleep", method |-> "", url |-> "", client |-> "", dt |-> "", sl |-> "", tl |-> "", q |-> ""]

RECURSIVE CountEv(_, _)
CountEv(s, e) ==
    IF s = <<>> THEN 0
    ELSE (IF Head(s).e = e THEN 1 ELSE 0) + CountEv(Tail(s), e)

Requests(c) == CountEv(log[c], "req")
Sleeps(c) == CountEv(log[c], "sleep")

\* Whether a parsed body is an array whose first element is an array whose
\* first element is an array whose first element is a string.
HasStringAt000(json) ==
    /\ json.k = "arr" /\ Len(json.a) >= 1
    /\ json.a[1].k = "arr" /\ Len(json.a[1].a) >= 1
    /\ json.a[1].a[1].k = "arr" /\ Len(json.a[1].a[1].a) >= 1
    /\ json.a[1].a[1].a[1].k = "str"

StringAt000(json) == json.a[1].a[1].a[1].s

\* How an attempt ended, from what the backend gave.
Classify(sendOk, t) ==
    IF ~sendOk THEN "sendfail"
    ELSE IF ~t.ok THEN "textfail"
    ELSE IF ~from_str(t.text).ok THEN "jsonfail"
    ELSE IF HasStringAt000(from_str(t.text).val) THEN "string"
    ELSE "nostring"

\* The executor thread is free for call c unless another call sits in
\* std::thread::sleep on it.
ThreadFree(c) == \A d \in Calls \ {c} : pc[d] # "sleeping"

TypeOK ==
    /\ pc \in [Calls -> {"idle", "start", "await_send", "await_text", "sleeping", "done"}]
    /\ retries \in [Calls -> 0..ReqCap]
    /\ word \in [Calls -> Words]

(***************************************************************************)
(* Initial states: the Translator is constructed and translate has been   *)
(* called; no future has been polled yet.                                  *)
(***************************************************************************)
InitCommon ==
    /\ retries = [c \in Calls |-> 0]
    /\ delay = [c \in Calls |-> 0]
    /\ resp = [c \in Calls |-> NoText]
    /\ result = [c \in Calls |-> Pending]
    /\ log = [c \in Calls |-> <<>>]
    /\ hist = [c \in Calls |-> <<>>]
    /\ waited = [c \in Calls |-> 0]
    /\ stdout = <<>>

\* One call, any word, any target language.
Init ==
    /\ translator \in [source_lang : {"en"}, target_lang : Langs]
    /\ backend = Bodies
    /\ \E w \in Words : word = [c \in Calls |-> w]
    /\ pc = [c \in Calls |-> IF c = 1 THEN "start" ELSE "idle"]
    /\ mainpc = "none"
    /\ InitCommon

\* All calls at once, as in main: Translator::new("en", "fr"), translate("hello").
ConcInit ==
    /\ translator = [source_lang |-> "en", target_lang |-> "fr"]
    /\ backend = FewBodies
    /\ word = [c \in Calls |-> "hello"]
    /\ pc = [c \in Calls |-> "start"]
    /\ mainpc = "none"
    /\ InitCommon

\* The same call made twice on one Translator, the time slept measured.
PairInit ==
    /\ translator = [source_lang |-> "en", target_lang |-> "fr"]
    /\ backend = FewBodies
    /\ \E w \in Words : word = [c \in Calls |-> w]
    /\ pc = [c \in Calls |-> IF c <= 2 THEN "start" ELSE "idle"]
    /\ mainpc = "none"
    /\ InitCommon

\* Lines 91-94: main has built Translator::new("en", "fr") and awaits
\* translate("hello"), which is call 1.
MainInit ==
    /\ translator = [source_lang |-> "en", target_lang |-> "fr"]
    /\ backend = Bodies
    /\ word = [c \in Calls |-> "hello"]
    /\ pc = [c \in Calls |-> IF c = 1 THEN "start" ELSE "idle"]
    /\ mainpc = "awaiting"
    /\ InitCommon

(***************************************************************************)
(* Actions.                                                                *)
(***************************************************************************)
\* Variant of OnSend that retries a failed send.
OnSend_Retry(sendOk) == IF sendOk THEN "text" ELSE "sleep"

\* Lines 60-63: the match on send().await.
OnSend(sendOk) == IF sendOk THEN "text" ELSE "RequestFailed"

\* Variant of Decide with `retries <= 3`.
Decide_OffByOne(t, r) ==
    IF ~t.ok THEN "ResponseParsingFailed"
    ELSE IF ~from_str(t.text).ok THEN "ResponseParsingFailed"
    ELSE IF Extract(from_str(t.text).val).some THEN "Ok"
    ELSE IF r <= RetryLimit THEN "sleep"
    ELSE "NoTranslationFound"

\* Variant of Decide that sends unparsable JSON down the retry path.
Decide_BadJsonRetried(t, r) ==
    IF ~t.ok THEN "ResponseParsingFailed"
    ELSE IF from_str(t.text).ok /\ Extract(from_str(t.text).val).some THEN "Ok"
    ELSE IF r < RetryLimit THEN "sleep"
    ELSE "NoTranslationFound"

\* Variant of Decide that sends an unreadable body down the retry path.
Decide_TextErrRetried(t, r) ==
    IF t.ok /\ ~from_str(t.text).ok THEN "ResponseParsingFailed"
    ELSE IF t.ok /\ Extract(from_str(t.text).val).some THEN "Ok"
    ELSE IF r < RetryLimit THEN "sleep"
    ELSE "NoTranslationFound"

\* Variant of Decide that tests the retry budget before the extraction.
Decide_BudgetFirst(t, r) ==
    IF ~t.ok THEN "ResponseParsingFailed"
    ELSE IF ~from_str(t.text).ok THEN "ResponseParsingFailed"
    ELSE IF r >= RetryLimit THEN "NoTranslationFound"
    ELSE IF Extract(from_str(t.text).val).some THEN "Ok"
    ELSE "sleep"

\* Lines 65-85: the matches on text().await and from_str, the extraction
\* and the test of the retry budget; r is `retries`.
Decide(t, r) ==
    IF ~t.ok THEN "ResponseParsingFailed"
    ELSE IF ~from_str(t.text).ok THEN "ResponseParsingFailed"
    ELSE IF Extract(from_str(t.text).val).some THEN "Ok"
    ELSE IF r < RetryLimit THEN "sleep"
    ELSE "NoTranslationFound"

\* The value returned for an outcome that returns.
Returned(o, t, w) ==
    CASE o = "RequestFailed" -> RequestFailed
      [] o = "ResponseParsingFailed" -> ResponseParsingFailed
      [] o = "Ok" -> Ok(Extract(from_str(t.text).val).v)
      [] o = "NoTranslationFound" -> NoTranslationFound(error_message(w))

\* Variant of Delays that draws from 1..=6.
Delays_OneToSix == {n * DelayUnit : n \in 1..(MaxDelayDraw + 1)}

\* rng.gen_range(0..=5) * 1000
Delays == {n * DelayUnit : n \in 0..MaxDelayDraw}

\* Variant of IncRetries that does not count a retry whose delay was zero.
IncRetries_SkipZeroDelay(c) ==
    IF delay[c] > 0 THEN [retries EXCEPT ![c] = @ + 1] ELSE retries

\* Variant of IncRetries that counts a retry twice.
IncRetries_Twice(c) == [retries EXCEPT ![c] = @ + 2]

\* Variant of IncRetries that forgets the increment.
IncRetries_Forgotten(c) == retries

\* Variant of IncRetries with one counter for all calls.
IncRetries_Shared(c) == [d \in Calls |-> retries[d] + 1]

\* retries += 1
IncRetries(c) == [retries EXCEPT ![c] = @ + 1]

\* What an outcome does to the call: go on to text().await, enter
\* thread::sleep with a drawn delay, or return.
Apply(c, o, t) ==
    IF o = "text"
    THEN /\ pc' = [pc EXCEPT ![c] = "await_text"]
         /\ UNCHANGED <<delay, resp, result>>
    ELSE IF o = "sleep"
    THEN /\ pc' = [pc EXCEPT ![c] = "sleeping"]
         /\ \E d \in Delays : delay' = [delay EXCEPT ![c] = d]
         /\ UNCHANGED <<resp, result>>
    ELSE /\ pc' = [pc EXCEPT ![c] = "done"]
         /\ result' = [result EXCEPT ![c] = Returned(o, t, word[c])]
         /\ resp' = [resp EXCEPT ![c] = t]
         /\ UNCHANGED delay

\* Lines 42-59: first poll; `let mut retries = 0`, then the first request.
Start(c) ==
    /\ pc[c] = "start"
    /\ ThreadFree(c)
    /\ Requests(c) < ReqCap
    /\ retries' = [retries EXCEPT ![c] = 0]
    /\ log' = [log EXCEPT ![c] = Append(@, Request(c))]
    /\ pc' = [pc EXCEPT ![c] = "await_send"]
    /\ UNCHANGED <<translator, backend, word, delay, resp, result, hist, waited, mainpc, stdout>>

\* Lines 59-63: send().await resolves.
SendResolved(c) ==
    /\ pc[c] = "await_send"
    /\ ThreadFree(c)
    /\ \E sendOk \in BOOLEAN :
          /\ hist' = [hist EXCEPT ![c] =
                         IF sendOk THEN @ ELSE Append(@, Classify(FALSE, NoText))]
          /\ Apply(c, OnSend(sendOk), NoText)
    /\ UNCHANGED <<translator, backend, word, retries, log, waited, mainpc, stdout>>

\* Lines 65-86: text().await resolves; parse, extract, return or go to sleep.
TextResolved(c) ==
    /\ pc[c] = "await_text"
    /\ ThreadFree(c)
    /\ \E t \in TextOutcomes(backend) :
          /\ hist' = [hist EXCEPT ![c] = Append(@, Classify(TRUE, t))]
          /\ Apply(c, Decide(t, retries[c]), t)
    /\ UNCHANGED <<translator, backend, word, retries, log, waited, mainpc, stdout>>

\* Lines 81-82, then 47-59: thread::sleep returns; retries += 1; the loop
\* sends the next request.
Wake(c) ==
    /\ pc[c] = "sleeping"
    /\ Requests(c) < ReqCap
    /\ retries' = IncRetries(c)
    /\ delay' = [delay EXCEPT ![c] = 0]
    /\ log' = [log EXCEPT ![c] = Append(Append(@, SleepEvent), Request(c))]
    /\ pc' = [pc EXCEPT ![c] = "await_send"]
    /\ UNCHANGED <<translator, backend, word, resp, result, hist, mainpc, stdout>>

SleepReturn(c) == Wake(c) /\ UNCHANGED waited

\* The same step, with the time the call has slept added up.
SleepReturnTimed(c) == Wake(c) /\ waited' = [waited EXCEPT ![c] = @ + delay[c]]

Step(c) == Start(c) \/ SendResolved(c) \/ TextResolved(c) \/ SleepReturn(c)

Next ==
    \E c \in Calls :
        \/ Start(c)
        \/ SendResolved(c)
        \/ TextResolved(c)
        \/ SleepReturn(c)

TimedNext ==
    \E c \in Calls :
        \/ Start(c)
        \/ SendResolved(c)
        \/ TextResolved(c)
        \/ SleepReturnTimed(c)

\* Variant of Unwrap that turns an error into the empty string.
Unwrap_OrDefault(r) == [panic |-> FALSE, v |-> r.s]

\* Result::unwrap: the value of Ok, a panic on Err.
Unwrap(r) ==
    IF r.tag = "Ok" THEN [panic |-> FALSE, v |-> r.s] ELSE [panic |-> TRUE, v |-> ""]

\* println!("{}", translation)
println(out, x) == Append(out, x \o "\n")

\* Lines 94-97: the awaited call has returned; unwrap, print, Ok(()).
MainReturn ==
    /\ mainpc = "awaiting"
    /\ pc[1] = "done"
    /\ LET translation == Unwrap(result[1])
       IN  IF translation.panic
           THEN /\ mainpc' = "panicked"
                /\ UNCHANGED stdout
           ELSE /\ stdout' = println(stdout, translation.v)
                /\ mainpc' = "exited"
    /\ UNCHANGED <<translator, backend, pc, word, retries, delay, resp, result,
                   log, hist, waited>>

MainNext ==
    \/ \E c \in Calls : Start(c)
    \/ \E c \in Calls : SendResolved(c)
    \/ \E c \in Calls : TextResolved(c)
    \/ \E c \in Calls : SleepReturnTimed(c)
    \/ MainReturn

Spec == Init /\ [][Next]_vars

ConcSpec == ConcInit /\ [][Next]_vars

PairSpec == PairInit /\ [][TimedNext]_vars

MainSpec == MainInit /\ [][MainNext]_vars

\* Every request and every sleep returns, and the executor polls a future
\* that can go on.
Fairness == \A c \in Calls : WF_vars(Step(c))

FairSpec == Spec /\ Fairness

FairConcSpec == ConcSpec /\ Fairness

(***************************************************************************)
(* Properties.                                                             *)
(***************************************************************************)
Last(s) == s[Len(s)]
Done(c) == pc[c] = "done"
MaxAttempts == RetryLimit + 1

\* All attempts of c before its last one ended with valid JSON without a
\* string at [0][0][0].
EarlierNoString(c) == \A i \in 1..(Len(hist[c]) - 1) : hist[c][i] = "nostring"
AllNoString(c) == \A i \in 1..Len(hist[c]) : hist[c][i] = "nostring"

\* The log is request, sleep, request, sleep, ...
Alternates(c) ==
    \A i \in 1..Len(log[c]) : log[c][i].e = (IF i % 2 = 1 THEN "req" ELSE "sleep")

\* The call returned on its last attempt: one request per attempt, a sleep
\* between two requests and nothing after the last request.
StoppedAtLastAttempt(c) ==
    /\ Done(c)
    /\ Requests(c) = Len(hist[c])
    /\ Sleeps(c) = Len(hist[c]) - 1
    /\ Alternates(c)
    /\ Last(log[c]).e = "req"

\* C1 (as claimed): a completed call returned Ok with a non-empty string or
\* Err with one of the three variants; Ok never carries the empty string.
C1_OkNeverEmpty ==
    \A c \in Calls :
        Done(c) =>
            \/ result[c].tag = "Ok" /\ result[c].s # ""
            \/ /\ result[c].tag = "Err"
               /\ result[c].err \in {"RequestFailed", "ResponseParsingFailed",
                                     "NoTranslationFound"}

\* C2: when every attempt gives valid JSON without a string at [0][0][0],
\* the call sends exactly 4 requests with a sleep between two consecutive
\* ones and returns NoTranslationFound; there is no 5th request, and
\* NoTranslationFound is never returned after fewer than 4 requests.
C2_ExhaustsAfterFourAttempts ==
    \A c \in Calls :
        /\ AllNoString(c) => Requests(c) <= MaxAttempts /\ Alternates(c)
        /\ (Done(c) /\ AllNoString(c)) =>
               /\ Len(hist[c]) = MaxAttempts
               /\ Requests(c) = MaxAttempts
               /\ Sleeps(c) = RetryLimit
               /\ StoppedAtLastAttempt(c)
               /\ result[c].tag = "Err" /\ result[c].err = "NoTranslationFound"
        /\ (AllNoString(c) /\ Len(hist[c]) = MaxAttempts) => Done(c)
        /\ result[c].err = "NoTranslationFound" =>
               Requests(c) = MaxAttempts /\ AllNoString(c)

C2_Witness ==
    \E c \in Calls :
        /\ Done(c) /\ AllNoString(c) /\ Len(hist[c]) = 4
        /\ Requests(c) = 4 /\ Sleeps(c) = 3
        /\ result[c].err = "NoTranslationFound"

\* C3: a send that fails, on the first attempt or on a retry, makes the call
\* return RequestFailed at once: it is the last attempt, no request and no
\* sleep follow it.
C3_SendFailureIsFinal ==
    \A c \in Calls :
        \A i \in 1..Len(hist[c]) :
            hist[c][i] = "sendfail" =>
                /\ i = Len(hist[c])
                /\ StoppedAtLastAttempt(c)
                /\ result[c] = RequestFailed
                /\ delay[c] = 0

C3_Witness ==
    \E c \in Calls :
        /\ Len(hist[c]) = 3 /\ hist[c][3] = "sendfail" /\ hist[c][1] = "nostring"
        /\ Done(c) /\ result[c] = RequestFailed /\ Requests(c) = 3

\* C4: a body that cannot be read as text, or that is not valid JSON, makes
\* the call return ResponseParsingFailed at once, on whichever attempt: no
\* request and no sleep follow.
C4_ParseFailureIsFinal ==
    \A c \in Calls :
        \A i \in 1..Len(hist[c]) :
            hist[c][i] \in {"textfail", "jsonfail"} =>
                /\ i = Len(hist[c])
                /\ StoppedAtLastAttempt(c)
                /\ result[c] = ResponseParsingFailed
                /\ delay[c] = 0

C4_Witness ==
    \E c \in Calls :
        /\ Len(hist[c]) = 2 /\ hist[c][2] = "jsonfail"
        /\ resp[c] = TextOk(BodyTruncated)
        /\ Done(c) /\ result[c] = ResponseParsingFailed /\ Requests(c) = 2

\* C5: after N < 3 attempts without a string, an attempt N+1 whose JSON has
\* a string at [0][0][0] makes the call return Ok with that string, with
\* exactly N+1 requests and neither request nor sleep after it.
C5_SuccessAfterRetries ==
    \A c \in Calls :
        ( /\ Len(hist[c]) \in 1..RetryLimit
          /\ Last(hist[c]) = "string"
          /\ EarlierNoString(c) ) =>
            /\ StoppedAtLastAttempt(c)
            /\ retries[c] = Len(hist[c]) - 1
            /\ result[c] = Ok(StringAt000(from_str(resp[c].text).val))

C5_Witness ==
    \E c \in Calls :
        /\ Len(hist[c]) = 3 /\ hist[c][3] = "string" /\ EarlierNoString(c)
        /\ Done(c) /\ result[c].tag = "Ok" /\ Requests(c) = 3

\* C6: Ok(s) carries exactly the string at [0][0][0] of the response to the
\* last request of the call, unchanged; "Bonjour" there gives Ok("Bonjour").
C6_OkIsTheStringOfTheLastResponse ==
    \A c \in Calls :
        (Done(c) /\ result[c].tag = "Ok") =>
            /\ Requests(c) = Len(hist[c])
            /\ resp[c].ok
            /\ from_str(resp[c].text).ok
            /\ HasStringAt000(from_str(resp[c].text).val)
            /\ result[c].s = StringAt000(from_str(resp[c].text).val)
            /\ resp[c].text = BodyBonjour => result[c].s = "Bonjour"

C6_Witness ==
    \E c \in Calls :
        /\ Done(c) /\ result[c] = Ok("Bonjour") /\ resp[c] = TextOk(BodyBonjour)
        /\ word[c] = "hello" /\ translator.target_lang = "fr"

\* C7: every call that was made completes, given that requests and sleeps
\* return; at any time a call has sent at most 4 requests and finished at
\* most 3 sleeps, whatever the backend answers.
C7_TerminatesWithinBudget ==
    /\ \A c \in Calls : (pc[c] = "start") ~> Done(c)
    /\ [](\A c \in Calls : Requests(c) <= MaxAttempts /\ Sleeps(c) <= RetryLimit)

C7_Witness ==
    /\ \A c \in Calls : Done(c)
    /\ \E c \in Calls : Requests(c) = 4 /\ Sleeps(c) = 3
    /\ \E c \in Calls : Requests(c) = 1 /\ result[c].tag = "Ok"

\* The state of one call: its position, its locals and what it has done.
Local(c) == <<pc[c], retries[c], delay[c], resp[c], result[c], log[c], hist[c]>>

RECURSIVE CountIn(_, _)
CountIn(s, x) ==
    IF s = <<>> THEN 0
    ELSE (IF Head(s) = x THEN 1 ELSE 0) + CountIn(Tail(s), x)

\* The retry counter and the outcome of c as its own attempts determine them.
OwnCounterAndOutcome(c) ==
    /\ retries[c] = IF pc[c] = "sleeping" \/ result[c].err = "NoTranslationFound"
                    THEN CountIn(hist[c], "nostring") - 1
                    ELSE CountIn(hist[c], "nostring")
    /\ Requests(c) = IF pc[c] \in {"idle", "start"} THEN 0 ELSE retries[c] + 1
    /\ Done(c) =>
          /\ Requests(c) = Len(hist[c])
          /\ CASE Last(hist[c]) = "sendfail" -> result[c] = RequestFailed
               [] Last(hist[c]) \in {"textfail", "jsonfail"} ->
                      result[c] = ResponseParsingFailed
               [] Last(hist[c]) = "string" -> result[c].tag = "Ok"
               [] OTHER -> result[c].err = "NoTranslationFound"

\* C8: in any interleaving of concurrent calls a step changes the state of
\* one call only, and the retry counter, the number of requests and the
\* result of a call are those its own responses determine.
C8_CallsDoNotInterfere ==
    [][ /\ \A c, d \in Calls :
              (c # d /\ Local(c)' # Local(c)) => Local(d)' = Local(d)
        /\ \A c \in Calls : OwnCounterAndOutcome(c)' ]_vars

C8_Witness ==
    \E c, d \in Calls :
        /\ c # d /\ Done(c) /\ Done(d)
        /\ retries[c] = 3 /\ result[c].err = "NoTranslationFound"
        /\ retries[d] = 0 /\ Requests(d) = 1 /\ result[d].tag = "Ok"

\* C9 (as claimed): while a call waits out its delay, every other call that
\* has not returned can take a step.
C9_DelayDoesNotBlockOthers ==
    \A c, d \in Calls :
        ( /\ c # d
          /\ pc[c] = "sleeping" /\ delay[c] > 0
          /\ pc[d] \in {"start", "await_send", "await_text"} ) =>
            ENABLED Step(d)

\* C10 (as claimed): NoTranslationFound carries the word given to translate,
\* and its message is "No translation found for: " followed by that word.
C10_CarriesOriginalWord ==
    \A c \in Calls :
        result[c].err = "NoTranslationFound" =>
            /\ result[c].s = word[c]
            /\ Display(result[c]) = "No translation found for: " \o word[c]

\* C11: the result of translate is a function of its inputs and of the
\* backend's responses: two calls with the same languages and word whose
\* attempts ended the same way have both returned or both not, and with the
\* same last response they return the same result, whatever delays they drew.
C11_ResultIsFunctionOfResponses ==
    \A c, d \in Calls :
        (word[c] = word[d] /\ hist[c] = hist[d] /\ Done(c)) =>
            /\ Done(d)
            /\ Requests(c) = Requests(d)
            /\ resp[c] = resp[d] => result[c] = result[d]

C11_Witness ==
    \E c, d \in Calls :
        /\ c # d /\ Done(c) /\ Done(d)
        /\ Len(hist[c]) = 3 /\ hist[c] = hist[d]
        /\ resp[c] = TextOk(BodyBonjour) /\ resp[d] = resp[c]
        /\ result[c] = Ok("Bonjour") /\ result[d] = result[c]
        /\ waited[c] = 0 /\ waited[d] = 10000

\* C12: main makes one translate call, "hello" from "en" to "fr"; when the
\* call returns Ok(s) main prints s and exits successfully; when it returns
\* an error main panics, prints nothing and never exits successfully.
C12_MainPrintsOrPanics ==
    /\ translator = [source_lang |-> "en", target_lang |-> "fr"]
    /\ word[1] = "hello"
    /\ \A c \in Calls \ {1} : pc[c] = "idle" /\ log[c] = <<>>
    /\ \A i \in 1..Len(log[1]) :
          log[1][i].e = "req" =>
              log[1][i].sl = "en" /\ log[1][i].tl = "fr" /\ log[1][i].q = "hello"
    /\ mainpc \in {"awaiting", "exited", "panicked"}
    /\ mainpc = "awaiting" => stdout = <<>>
    /\ mainpc = "exited" =>
          /\ Done(1) /\ result[1].tag = "Ok"
          /\ stdout = <<result[1].s \o "\n">>
    /\ mainpc = "panicked" =>
          /\ Done(1) /\ result[1].tag = "Err"
          /\ stdout = <<>>
    /\ result[1].tag = "Err" => mainpc # "exited" /\ stdout = <<>>

C12_Witness ==
    /\ mainpc = "exited" /\ stdout = <<"Bonjour\n">>
    /\ result[1] = Ok("Bonjour") /\ Requests(1) = 2

C12_WitnessPanic ==
    /\ mainpc = "panicked" /\ stdout = <<>>
    /\ result[1].err = "NoTranslationFound"

\* C13: a delay is 0, 1000, 2000, 3000, 4000 or 5000 ms; there is exactly
\* one between a failed extraction and the next request, none before the
\* first request, none after a success, a terminal error or the 4th failed
\* extraction.
C13_OneDelayPerFailedExtraction ==
    \A c \in Calls :
        /\ delay[c] \in {0, 1000, 2000, 3000, 4000, 5000}
        /\ pc[c] # "sleeping" => delay[c] = 0
        /\ pc[c] = "sleeping" =>
              /\ Len(hist[c]) \in 1..3 /\ AllNoString(c)
              /\ Requests(c) = Len(hist[c]) /\ Sleeps(c) = Len(hist[c]) - 1
        /\ Alternates(c)
        /\ Sleeps(c) <= 3
        /\ Requests(c) >= 1 => Sleeps(c) = Requests(c) - 1
        /\ Done(c) =>
              /\ Last(log[c]).e = "req"
              /\ Sleeps(c) = CountIn(hist[c], "nostring")
                               - (IF Last(hist[c]) = "nostring" THEN 1 ELSE 0)

C13_Witness ==
    \E c \in Calls :
        /\ pc[c] = "sleeping" /\ delay[c] = 5000
        /\ Len(hist[c]) = 3 /\ Sleeps(c) = 2

\* C14: a second or later request is sent only when every earlier attempt
\* gave valid JSON without a string at [0][0][0]; NoTranslationFound is
\* returned only when all 4 attempts ended so; a transport, text or JSON
\* failure is never followed by another request.
C14_OnlyNoStringLoops ==
    \A c \in Calls :
        /\ Requests(c) >= 2 => Len(hist[c]) >= Requests(c) - 1
        /\ \A i \in 1..Len(hist[c]) :
              /\ i < Requests(c) => hist[c][i] = "nostring"
              /\ hist[c][i] \in {"sendfail", "textfail", "jsonfail"} =>
                    i = Len(hist[c]) /\ Done(c) /\ Requests(c) = i
        /\ result[c].err = "NoTranslationFound" =>
              Len(hist[c]) = MaxAttempts /\ AllNoString(c)

C14_Witness ==
    \E c \in Calls :
        /\ Requests(c) = 3 /\ Done(c)
        /\ hist[c] = <<"nostring", "nostring", "textfail">>

\* C15: translate does not change the Translator, and every request of a
\* call, the first and each retry, is a GET to the one endpoint with
\* client=gtx, dt=t, sl=source_lang, tl=target_lang, q=word.
C15_RequestsAreTheSame ==
    [][ /\ translator' = translator
        /\ word' = word
        /\ \A c \in Calls :
              \A i \in 1..Len(log'[c]) :
                  log'[c][i].e = "req" =>
                      log'[c][i] =
                          [e |-> "req", method |-> "GET",
                           url |-> "https://translate.googleapis.com/translate_a/single",
                           client |-> "gtx", dt |-> "t",
                           sl |-> translator.source_lang,
                           tl |-> translator.target_lang,
                           q |-> word[c]] ]_vars

C15_Witness ==
    \E c \in Calls :
        /\ Requests(c) = 4 /\ log[c][7] = log[c][1]
        /\ log[c][7].q = "hello" /\ log[c][7].tl = "de" /\ log[c][7].sl = "en"

\* C16: the retry budget is tested only after a failed extraction: three
\* attempts without a string and a 4th with one give Ok with that string.
C16_FourthAttemptCanSucceed ==
    \A c \in Calls :
        ( /\ Len(hist[c]) = MaxAttempts
          /\ hist[c][MaxAttempts] = "string"
          /\ EarlierNoString(c) ) =>
            /\ Done(c)
            /\ retries[c] = RetryLimit
            /\ Requests(c) = MaxAttempts
            /\ result[c].tag = "Ok"
            /\ result[c].s = StringAt000(ParseValue(resp[c].text).val)

C16_Witness ==
    \E c \in Calls :
        /\ Len(hist[c]) = 4 /\ hist[c][4] = "string" /\ EarlierNoString(c)
        /\ result[c] = Ok("Bonjour") /\ retries[c] = 3

\* The top-level value is not an array, or its [0] or [0][0] is missing or
\* not an array.
ShapeBroken(json) ==
    \/ json.k # "arr"
    \/ Len(json.a) = 0
    \/ json.a[1].k # "arr"
    \/ Len(json.a[1].a) = 0
    \/ json.a[1].a[1].k # "arr"

\* C17: valid JSON of a broken shape is "no translation found": a call that
\* returned on such a body had made all 4 attempts and returned
\* NoTranslationFound, never ResponseParsingFailed.
C17_BrokenShapeIsNoTranslation ==
    \A c \in Calls :
        ( /\ Done(c) /\ resp[c].ok
          /\ ParseValue(resp[c].text).ok
          /\ ParseValue(resp[c].text).rest = <<>>
          /\ ShapeBroken(ParseValue(resp[c].text).val) ) =>
            /\ result[c].tag = "Err"
            /\ result[c].err = "NoTranslationFound"
            /\ Requests(c) = MaxAttempts
            /\ Last(hist[c]) = "nostring"

C17_Witness ==
    \E c \in Calls :
        /\ Done(c) /\ resp[c] = TextOk(BodyFirstObject)
        /\ result[c].err = "NoTranslationFound" /\ Requests(c) = 4

\* C18: 0 <= retries <= 3 always, retries never decreases, the requests sent
\* are at most retries + 1 and the sleeps finished are exactly retries.
RetriesInRange(c) ==
    /\ retries[c] >= 0 /\ retries[c] <= 3
    /\ Requests(c) <= retries[c] + 1
    /\ Sleeps(c) = retries[c]

C18_RetriesCounter ==
    /\ \A c \in Calls : RetriesInRange(c)
    /\ [][ \A c \in Calls : retries'[c] >= retries[c] /\ RetriesInRange(c)' ]_vars

C18_Witness ==
    \E c \in Calls : retries[c] = 3 /\ Requests(c) = 4 /\ Sleeps(c) = 3 /\ Done(c)

====
